---- MODULE Spec2Model ----
(***************************************************************************)
(* A model of publisherator's Publisher (src/publisherator/publisher.py):  *)
(* the version store (get_current_version, bump_version,                   *)
(* update_version_files) and the publish workflow with its rollback.       *)
(*                                                                         *)
(* Every subprocess.run is one step of the model.  Its outcome is drawn    *)
(* from RunOutcomes: the command exits 0 ("ok"), exits nonzero             *)
(* ("nonzero"), or subprocess.run itself raises OSError ("raise", the      *)
(* executable cannot be started).  The effect of a git command that exits  *)
(* 0 on the repository is the effect git documents for it; a command that  *)
(* does not exit 0 leaves the repository as it was.                        *)
(***************************************************************************)
EXTENDS Integers, Sequences, FiniteSets, TLC

VARIABLES
    args,         \* the call: entry, bump_type, commit_msg, skip_git, skip_pypi, dry_run
    pyproject,    \* pyproject.toml: [exists, content]
    init,         \* <package>/__init__.py: [exists, content]
    git,          \* the repository: worktree, remote, commits, index, tags, origin
    dist,         \* whether dist/ exists, and what was built into it
    registry,     \* the versions uploaded to the registry
    pc,           \* the statement of publish that runs next
    committed,    \* publish's local variable
    new_version,  \* publish's local variable (None until bump_version returned)
    push_error,   \* the PublishError bound to e in the push handler
    result,       \* the value returned
    error,        \* the exception that left the call
    log,          \* every command and file operation performed, with its outcome
    notes,        \* the recovery guidance handed to Logger.note
    start         \* the files, the repository and dist/ as they were at the call

vars == <<args, pyproject, init, git, dist, registry, pc, committed,
          new_version, push_error, result, error, log, notes, start>>

(***************************************************************************)
(* Bounds                                                                  *)
(***************************************************************************)
\* Largest component of a well-formed version in the manifest at the call.
MaxPart == 1

(***************************************************************************)
(* Version strings.  A version string is the sequence of its dot-separated *)
(* pieces; a piece is the text int() is applied to: an integer literal     *)
(* with z leading zeros, or text that is no integer literal.               *)
(***************************************************************************)
None == <<>>

Piece(n) == [t |-> "int", v |-> n, z |-> 0]

Padded(n) == [t |-> "int", v |-> n, z |-> 1]

Word == [t |-> "text", v |-> 0, z |-> 0]

Ver(a, b, c) == <<Piece(a), Piece(b), Piece(c)>>

\* int(piece): the value, when the piece is an integer literal.
IsIntLiteral(p) == p.t = "int"

IntOf(p) == p.v

\* str(n)
StrOf(n) == Piece(n)

\* ".".join(map(str, parts))
JoinParts(parts) == [i \in 1..Len(parts) |-> StrOf(parts[i])]

(***************************************************************************)
(* Exceptions and results                                                  *)
(***************************************************************************)
NoError == [exc |-> "none", kind |-> "none", msg |-> <<>>]

\* raise PublishError(...): kind is the spec's name for the failure, msg the
\* pieces of the formatted message.
PublishError(kind, msg) == [exc |-> "PublishError", kind |-> kind, msg |-> msg]

\* What subprocess.run raises when the executable cannot be started.
OSErrorOf(cmd) ==
    [exc |-> "OSError", kind |-> "OSError",
     msg |-> <<"[Errno 2] No such file or directory: ", cmd>>]

\* What subprocess.run(..., check=True) raises on a nonzero exit status.
CalledProcessError(cmd) ==
    [exc |-> "CalledProcessError", kind |-> "CalledProcessError",
     msg |-> <<"Command ", cmd, " returned non-zero exit status 1.">>]

ValueError == [exc |-> "ValueError", kind |-> "ValueError",
               msg |-> <<"invalid literal for int() with base 10">>]

IndexError == [exc |-> "IndexError", kind |-> "IndexError",
               msg |-> <<"list index out of range">>]

\* result.stderr of a command that exited nonzero
Stderr(cmd) == "<stderr of " \o cmd \o ">"

Ok(v) == [ok |-> TRUE, val |-> v, err |-> NoError]

Err(e) == [ok |-> FALSE, val |-> None, err |-> e]

\* The outcomes of one subprocess.run.
RunOutcomes == {"ok", "nonzero", "raise"}

(***************************************************************************)
(* Files.  A file's content is the sequence of its lines; a line is an     *)
(* assignment key = <q1>val<q2> (val a version string, None for an empty   *)
(* value) or, with q1 = "", a line that is no quoted assignment.           *)
(***************************************************************************)
Assign(key, q, val) == [key |-> key, q1 |-> q, val |-> val, q2 |-> q]

Plain(text) == [key |-> text, q1 |-> "", val |-> None, q2 |-> ""]

File(content) == [exists |-> TRUE, content |-> content]

Missing == [exists |-> FALSE, content |-> <<>>]

\* The keys of the model whose text ends in "version": the pattern
\* version\s*=\s*["']([^"']+)["'] is not anchored at the start of the key.
EndsInVersion(key) == key \in {"version", "target-version", "__version__"}

\* re: version\s*=\s*["\']([^"\']+)["\'] matches in this line
PyprojectPattern(line) ==
    /\ EndsInVersion(line.key)
    /\ line.q1 \in {"\"", "'"} /\ line.q2 \in {"\"", "'"}
    /\ line.val # None

\* re: __version__\s*=\s*["\']([^"\']+)["\'] matches in this line
InitPattern(line) ==
    /\ line.key = "__version__"
    /\ line.q1 \in {"\"", "'"} /\ line.q2 \in {"\"", "'"}
    /\ line.val # None

\* A search that reports the last match of the manifest pattern.
SearchVersionLast(content) ==
    LET hits == {i \in 1..Len(content) : PyprojectPattern(content[i])}
    IN  IF hits = {} THEN 0 ELSE CHOOSE i \in hits : \A j \in hits : i >= j

\* re.search: the first line of content with a match of the manifest pattern (0: none)
SearchVersion(content) ==
    LET hits == {i \in 1..Len(content) : PyprojectPattern(content[i])}
    IN  IF hits = {} THEN 0 ELSE CHOOSE i \in hits : \A j \in hits : i <= j

\* The manifest's content written back without the substitution.
SubPyprojectKeep(content, v) == content

\* re.sub(pattern, \g<1>new_version\g<2>, content): every match is rewritten
SubPyproject(content, v) ==
    [i \in 1..Len(content) |->
        IF PyprojectPattern(content[i]) THEN [content[i] EXCEPT !.val = v]
        ELSE content[i]]

\* The marker's content written back without the substitution.
SubInitKeep(content, v) == content

\* re.sub of the marker's pattern: every match is rewritten
SubInit(content, v) ==
    [i \in 1..Len(content) |->
        IF InitPattern(content[i]) THEN [content[i] EXCEPT !.val = v]
        ELSE content[i]]

(***************************************************************************)
(* The version store                                                       *)
(***************************************************************************)
\* Publisher.get_current_version
get_current_version(file) ==
    IF ~file.exists
    THEN Err(PublishError("ManifestMissing", <<"pyproject.toml not found in ", "package_dir">>))
    ELSE IF SearchVersion(file.content) = 0
    THEN Err(PublishError("VersionFieldMissing", <<"Version not found in pyproject.toml">>))
    ELSE Ok(file.content[SearchVersion(file.content)].val)

\* bump_version with its last branch taking every other bump_type for "patch".
bump_version_else_patch(file, bump_type) ==
    LET current == get_current_version(file)
        pieces  == current.val
        parts   == [i \in 1..Len(pieces) |-> IntOf(pieces[i])]
    IN  IF ~current.ok THEN current
        ELSE IF \E i \in 1..Len(pieces) : ~IsIntLiteral(pieces[i]) THEN Err(ValueError)
        ELSE IF bump_type = "major"
        THEN Ok(JoinParts(<<parts[1] + 1, 0, 0>>))
        ELSE IF bump_type = "minor"
        THEN IF Len(parts) < 2 THEN Err(IndexError)
             ELSE Ok(JoinParts(<<parts[1], parts[2] + 1, 0>>))
        ELSE IF Len(parts) < 3 THEN Err(IndexError)
             ELSE Ok(JoinParts(<<parts[1], parts[2], parts[3] + 1>>))

\* bump_version with a minor bump that leaves the patch component as it was.
bump_version_minor_keeps_patch(file, bump_type) ==
    LET current == get_current_version(file)
        pieces  == current.val
        parts   == [i \in 1..Len(pieces) |-> IntOf(pieces[i])]
    IN  IF ~current.ok THEN current
        ELSE IF \E i \in 1..Len(pieces) : ~IsIntLiteral(pieces[i]) THEN Err(ValueError)
        ELSE IF bump_type = "major"
        THEN Ok(JoinParts(<<parts[1] + 1, 0, 0>>))
        ELSE IF bump_type = "minor"
        THEN IF Len(parts) < 3 THEN Err(IndexError)
             ELSE Ok(JoinParts(<<parts[1], parts[2] + 1, parts[3]>>))
        ELSE IF bump_type = "patch"
        THEN IF Len(parts) < 3 THEN Err(IndexError)
             ELSE Ok(JoinParts(<<parts[1], parts[2], parts[3] + 1>>))
        ELSE Err(PublishError("InvalidBumpKind", <<"Invalid bump type: ", bump_type>>))

\* Publisher.bump_version: the version is read and parsed before bump_type is looked at
bump_version(file, bump_type) ==
    LET current == get_current_version(file)
        pieces  == current.val
        parts   == [i \in 1..Len(pieces) |-> IntOf(pieces[i])]
    IN  IF ~current.ok THEN current
        ELSE IF \E i \in 1..Len(pieces) : ~IsIntLiteral(pieces[i]) THEN Err(ValueError)
        ELSE IF bump_type = "major"
        THEN Ok(JoinParts(<<parts[1] + 1, 0, 0>>))
        ELSE IF bump_type = "minor"
        THEN IF Len(parts) < 2 THEN Err(IndexError)
             ELSE Ok(JoinParts(<<parts[1], parts[2] + 1, 0>>))
        ELSE IF bump_type = "patch"
        THEN IF Len(parts) < 3 THEN Err(IndexError)
             ELSE Ok(JoinParts(<<parts[1], parts[2], parts[3] + 1>>))
        ELSE Err(PublishError("InvalidBumpKind", <<"Invalid bump type: ", bump_type>>))

(***************************************************************************)
(* The repository                                                          *)
(***************************************************************************)
\* The tracked content of the two version files.
Snapshot(py, ini) == [pyproject |-> py, init |-> ini]

\* git commit: the index becomes the new head, with its message
Commit(index, msg) == [tree |-> index, msg |-> msg]

\* HEAD
HeadCommit(g) == g.commits[Len(g.commits)]

\* git status --porcelain prints a line for every path that differs from HEAD
StatusOutput(g, py, ini) ==
    IF g.uncommitted \/ Snapshot(py, ini) # HeadCommit(g).tree
    THEN <<"M", " ", "f", "\n">> ELSE <<>>

IsSpace(c) == c \in {" ", "\n", "\t"}

\* str.strip(): leading and trailing whitespace removed
RECURSIVE Strip(_)
Strip(s) ==
    IF s = <<>> THEN s
    ELSE IF IsSpace(Head(s)) THEN Strip(Tail(s))
    ELSE IF IsSpace(s[Len(s)]) THEN Strip(SubSeq(s, 1, Len(s) - 1))
    ELSE s

(***************************************************************************)
(* The calls the model makes                                               *)
(***************************************************************************)
WellFormed == {Ver(a, b, c) : a \in 0..MaxPart, b \in 0..MaxPart, c \in 0..MaxPart}

\* Version values int() and the indexing of bump_version treat differently:
\* too few or too many pieces, a negative piece, text, a padded piece.
Malformed ==
    { <<Piece(1)>>,
      <<Piece(1), Piece(0)>>,
      <<Piece(1), Piece(0), Piece(1), Piece(0)>>,
      <<Piece(1), Piece(0), Piece(-2)>>,
      <<Piece(1), Word, Piece(0)>>,
      <<Piece(1), Padded(0), Piece(1)>> }

NameLine == Assign("name", "\"", <<Word>>)

Manifests ==
    {File(<<NameLine, Assign("version", "\"", v)>>) : v \in WellFormed \cup Malformed}
    \cup {File(<<NameLine, Assign("version", "'", Ver(1, 0, 1))>>),
          File(<<Assign("version", "\"", Ver(1, 0, 1)),
                 Assign("target-version", "\"", <<Word>>)>>),
          File(<<Assign("version", "\"", Ver(0, 1, 1)),
                 Assign("version", "'", Ver(1, 0, 0))>>),
          File(<<Assign("target-version", "\"", <<Word>>),
                 Assign("version", "\"", Ver(1, 0, 1))>>),
          File(<<NameLine, Assign("version", "\"", None)>>),
          File(<<NameLine>>),
          Missing}

\* The marker file: absent, mirroring the manifest's version, or without an assignment.
Markers(py) ==
    LET cur == get_current_version(py)
    IN  {Missing,
         File(<<Assign("__version__", "\"", IF cur.ok THEN cur.val ELSE Ver(0, 0, 1))>>),
         File(<<Plain("import os")>>)}

BumpTypes == {"major", "minor", "patch", "bogus"}

CommitMsgs == {"None", "Custom message"}

\* publish(bump_type, commit_msg=None, skip_git=False, skip_pypi=False, dry_run=False)
\* and, called on its own, bump_version(bump_type).  commit_msg is read by
\* git_commit_and_tag alone, so it is varied in the calls that can reach it.
Calls ==
    {c \in [entry : {"publish"}, bump_type : BumpTypes, commit_msg : CommitMsgs,
            skip_git : BOOLEAN, skip_pypi : BOOLEAN, dry_run : BOOLEAN] :
        c.commit_msg # "None" => ~c.skip_git /\ ~c.dry_run}
    \cup [entry : {"bump_version"}, bump_type : BumpTypes, commit_msg : {"None"},
          skip_git : {FALSE}, skip_pypi : {FALSE}, dry_run : {FALSE}]

\* The repository at the call: the version files are tracked and committed;
\* other paths may carry uncommitted changes; origin may not be configured.
Repositories(py, ini) ==
    LET base == <<Commit(Snapshot(py, ini), [text |-> "Initial commit", version |-> None])>>
    IN  {[uncommitted |-> u, remote |-> r, commits |-> base,
          index |-> Snapshot(py, ini), tags |-> {},
          origin_commits |-> IF r THEN base ELSE <<>>, origin_tags |-> {}]
         : u \in BOOLEAN, r \in BOOLEAN}

Init ==
    /\ args \in Calls
    /\ pyproject \in Manifests
    /\ init \in Markers(pyproject)
    /\ git \in Repositories(pyproject, init)
    /\ dist \in {[exists |-> e, built |-> None] : e \in BOOLEAN}
    /\ registry = {}
    /\ pc = IF args.entry = "bump_version" \/ args.skip_git
            THEN "bump_version" ELSE "check_git_clean"
    /\ committed = FALSE
    /\ new_version = None
    /\ push_error = NoError
    /\ result = None
    /\ error = NoError
    /\ log = <<>>
    /\ notes = <<>>
    /\ start = [pyproject |-> pyproject, init |-> init, git |-> git, dist |-> dist]

(***************************************************************************)
(* Leaving publish                                                         *)
(***************************************************************************)
\* publish without its last clause, except Exception.
PublishHandlerNoCatchAll(e) ==
    IF e.exc = "CalledProcessError"
    THEN PublishError("CommandFailed", <<"Command failed: ", "None">>)
    ELSE e

\* publish's except clauses: CalledProcessError and every other Exception
\* become PublishError, a PublishError passes through.
PublishHandler(e) ==
    IF e.exc = "CalledProcessError"
    THEN PublishError("CommandFailed", <<"Command failed: ", "None">>)
    ELSE IF e.exc = "PublishError" THEN e
    ELSE PublishError("Unexpected", e.msg)

\* An exception raised in the body of the call leaves it.
Raise(e) ==
    /\ pc' = "raised"
    /\ error' = IF args.entry = "publish" THEN PublishHandler(e) ELSE e
    /\ UNCHANGED result

Return(v) ==
    /\ pc' = "returned"
    /\ result' = v
    /\ UNCHANGED error

\* The summary's remote query run whatever skip_git says.
AfterPypiUngated == "summary_remote"

\* Where publish goes on after its version-control block, and after its registry block.
AfterPypi == IF ~args.skip_git THEN "summary_remote" ELSE "return"

AfterGit == IF ~args.skip_pypi THEN "clean_dist" ELSE AfterPypi

\* The step after the version files are written, with the commit and push left out.
AfterUpdateSkipsGit == AfterGit

\* publish: if not skip_git: git_commit_and_tag, git_push
AfterUpdate == IF ~args.skip_git THEN "git_add" ELSE AfterGit

Goto(next) ==
    IF next = "return" THEN Return(new_version)
    ELSE pc' = next /\ UNCHANGED <<result, error>>

Logged(op, arg, res) == log' = Append(log, [op |-> op, arg |-> arg, res |-> res])

Noted(texts) == notes' = notes \o texts

\* Logger.note(text): the pieces of the text, and the version formatted into it
Note(text, v) == [text |-> text, version |-> v]

(***************************************************************************)
(* The steps of publish                                                    *)
(***************************************************************************)
\* The output of the status query not looked at.
IsDirtyNever(stdout) == FALSE

\* check_git_clean without its test of result.returncode.
check_git_clean_unchecked ==
    /\ pc = "check_git_clean"
    /\ \E out \in RunOutcomes :
        /\ Logged("git status", None, out)
        /\ IF out = "raise" THEN Raise(OSErrorOf("git"))
           ELSE IF out = "ok" /\ Strip(StatusOutput(git, pyproject, init)) # <<>>
           THEN Raise(PublishError("DirtyWorkingTree",
                    <<"Git working directory is not clean. Commit or stash changes first.">>))
           ELSE Goto("check_git_remote")
    /\ UNCHANGED <<args, pyproject, init, git, dist, registry, committed,
                   new_version, push_error, notes, start>>

\* check_git_clean: if result.stdout.strip()
IsDirty(stdout) == Strip(stdout) # <<>>

\* Publisher.check_git_clean
check_git_clean ==
    /\ pc = "check_git_clean"
    /\ \E out \in RunOutcomes :
        /\ Logged("git status", None, out)
        /\ IF out = "raise" THEN Raise(OSErrorOf("git"))
           ELSE IF out = "nonzero"
           THEN Raise(PublishError("GitCommandFailed",
                                   <<"Git command failed: ", Stderr("git status")>>))
           ELSE IF IsDirty(StatusOutput(git, pyproject, init))
           THEN Raise(PublishError("DirtyWorkingTree",
                    <<"Git working directory is not clean. Commit or stash changes first.">>))
           ELSE Goto("check_git_remote")
    /\ UNCHANGED <<args, pyproject, init, git, dist, registry, committed,
                   new_version, push_error, notes, start>>

\* Publisher.check_git_remote: git remote get-url origin exits 0 only when origin is configured
check_git_remote ==
    /\ pc = "check_git_remote"
    /\ \E out \in RunOutcomes :
        /\ out = "ok" => git.remote
        /\ Logged("git remote get-url", None, out)
        /\ IF out = "raise" THEN Raise(OSErrorOf("git"))
           ELSE IF out = "nonzero"
           THEN Raise(PublishError("NoRemoteConfigured",
                    <<"No git remote 'origin' configured. ",
                      "Set it up with: git remote add origin <url>">>))
           ELSE Goto("bump_version")
    /\ UNCHANGED <<args, pyproject, init, git, dist, registry, committed,
                   new_version, push_error, notes, start>>

\* The dry-run return left out.
DryRunExitNever == FALSE

\* publish: if dry_run: return new_version
DryRunExit == args.dry_run

\* new_version = self.bump_version(bump_type), the note of the two versions,
\* and the dry-run return; also bump_version called on its own
bump_version_step ==
    /\ pc = "bump_version"
    /\ \E r \in {bump_version(pyproject, args.bump_type)} :
           /\ Logged("bump_version", r.val, IF r.ok THEN "ok" ELSE "raise")
           /\ IF ~r.ok
              THEN Raise(r.err) /\ UNCHANGED <<new_version, notes>>
              ELSE IF args.entry = "bump_version"
              THEN Return(r.val) /\ UNCHANGED <<new_version, notes>>
              ELSE /\ new_version' = r.val
                   /\ IF DryRunExit
                      THEN /\ Noted(<<Note(<<"DRY RUN - No changes made">>, None)>>)
                           /\ Return(r.val)
                      ELSE /\ UNCHANGED notes
                           /\ Goto("update_version_files")
    /\ UNCHANGED <<args, pyproject, init, git, dist, registry, committed,
                   push_error, start>>

\* Publisher.update_version_files: write_text either writes the whole file or raises
update_version_files ==
    /\ pc = "update_version_files"
    /\ \E io \in {"ok", "raise"}, io2 \in {"ok", "raise"} :
        LET py == File(SubPyproject(pyproject.content, new_version))
            ini == File(SubInit(init.content, new_version))
        IN  IF io = "raise"
            THEN /\ io2 = "ok"
                 /\ Logged("write pyproject", new_version, "raise")
                 /\ Raise(OSErrorOf("pyproject.toml"))
                 /\ UNCHANGED <<pyproject, init>>
            ELSE IF ~init.exists
            THEN /\ io2 = "ok"
                 /\ Logged("write pyproject", new_version, "ok")
                 /\ pyproject' = py
                 /\ UNCHANGED init
                 /\ Goto(AfterUpdate)
            ELSE IF io2 = "raise"
            THEN /\ log' = log \o <<[op |-> "write pyproject", arg |-> new_version, res |-> "ok"],
                                    [op |-> "write init", arg |-> new_version, res |-> "raise"]>>
                 /\ pyproject' = py
                 /\ UNCHANGED init
                 /\ Raise(OSErrorOf("__init__.py"))
            ELSE /\ log' = log \o <<[op |-> "write pyproject", arg |-> new_version, res |-> "ok"],
                                    [op |-> "write init", arg |-> new_version, res |-> "ok"]>>
                 /\ pyproject' = py
                 /\ init' = ini
                 /\ Goto(AfterUpdate)
    /\ UNCHANGED <<args, git, dist, registry, committed, new_version,
                   push_error, notes, start>>

\* msg = commit_msg or f"Bump version to {version}"
CommitMessage(version, commit_msg) ==
    IF commit_msg \notin {"None", ""}
    THEN [text |-> commit_msg, version |-> None]
    ELSE [text |-> "Bump version to ", version |-> version]

\* git add pyproject.toml run without check=True: its exit status is not looked at.
git_add_unchecked ==
    /\ pc = "git_add"
    /\ \E out \in RunOutcomes :
        /\ Logged("git add pyproject.toml", None, out)
        /\ IF out = "raise" THEN Raise(OSErrorOf("git")) /\ UNCHANGED git
           ELSE /\ git' = IF out = "ok" THEN [git EXCEPT !.index.pyproject = pyproject]
                          ELSE git
                /\ Goto(IF init.exists THEN "git_add_init" ELSE "git_commit")
    /\ UNCHANGED <<args, pyproject, init, dist, registry, committed,
                   new_version, push_error, notes, start>>

\* git_commit_and_tag: subprocess.run(["git", "add", "pyproject.toml"], check=True)
git_add ==
    /\ pc = "git_add"
    /\ \E out \in RunOutcomes :
        /\ Logged("git add pyproject.toml", None, out)
        /\ IF out = "raise" THEN Raise(OSErrorOf("git")) /\ UNCHANGED git
           ELSE IF out = "nonzero"
           THEN Raise(CalledProcessError("git add")) /\ UNCHANGED git
           ELSE /\ git' = [git EXCEPT !.index.pyproject = pyproject]
                /\ Goto(IF init.exists THEN "git_add_init" ELSE "git_commit")
    /\ UNCHANGED <<args, pyproject, init, dist, registry, committed,
                   new_version, push_error, notes, start>>

\* git_commit_and_tag: if self.init_path.exists(): git add <package>/__init__.py, check=True
git_add_init ==
    /\ pc = "git_add_init"
    /\ \E out \in RunOutcomes :
        /\ Logged("git add __init__.py", None, out)
        /\ IF out = "raise" THEN Raise(OSErrorOf("git")) /\ UNCHANGED git
           ELSE IF out = "nonzero"
           THEN Raise(CalledProcessError("git add")) /\ UNCHANGED git
           ELSE /\ git' = [git EXCEPT !.index.init = init]
                /\ Goto("git_commit")
    /\ UNCHANGED <<args, pyproject, init, dist, registry, committed,
                   new_version, push_error, notes, start>>

\* git_commit_and_tag: git commit -m msg
git_commit ==
    /\ pc = "git_commit"
    /\ \E out \in RunOutcomes :
        /\ Logged("git commit", new_version, out)
        /\ IF out = "raise" THEN Raise(OSErrorOf("git")) /\ UNCHANGED git
           ELSE IF out = "nonzero"
           THEN /\ Raise(PublishError("CommitFailed",
                                      <<"Git commit failed: ", Stderr("git commit")>>))
                /\ UNCHANGED git
           ELSE /\ git' = [git EXCEPT !.commits =
                             Append(@, Commit(git.index,
                                              CommitMessage(new_version, args.commit_msg)))]
                /\ Goto("git_tag")
    /\ UNCHANGED <<args, pyproject, init, dist, registry, committed,
                   new_version, push_error, notes, start>>

\* git tag <version> with a failure handled the way a failed push is: by the hard reset.
git_tag_rolls_back ==
    /\ pc = "git_tag"
    /\ \E out \in RunOutcomes :
        /\ Logged("git tag", new_version, out)
        /\ IF out = "raise"
           THEN Raise(OSErrorOf("git")) /\ UNCHANGED <<git, committed>>
           ELSE IF out = "nonzero"
           THEN /\ Goto("rollback_reset")
                /\ UNCHANGED <<git, committed>>
           ELSE /\ git' = [git EXCEPT !.tags = @ \cup {new_version}]
                /\ committed' = TRUE
                /\ Goto("git_push")
    /\ UNCHANGED <<args, pyproject, init, dist, registry, new_version,
                   push_error, notes, start>>

\* git_commit_and_tag: git tag <version>; then publish sets committed = True
git_tag ==
    /\ pc = "git_tag"
    /\ \E out \in RunOutcomes :
        /\ Logged("git tag", new_version, out)
        /\ IF out = "raise"
           THEN Raise(OSErrorOf("git")) /\ UNCHANGED <<git, committed>>
           ELSE IF out = "nonzero"
           THEN /\ Raise(PublishError("TagFailed", <<"Git tag failed: ", Stderr("git tag")>>))
                /\ UNCHANGED <<git, committed>>
           ELSE /\ git' = [git EXCEPT !.tags = @ \cup {new_version}]
                /\ committed' = TRUE
                /\ Goto("git_push")
    /\ UNCHANGED <<args, pyproject, init, dist, registry, new_version,
                   push_error, notes, start>>

\* git_push: git push -u origin HEAD.  A nonzero status raises PublishError, which
\* publish's inner handler catches; an OSError is not caught there.
git_push ==
    /\ pc = "git_push"
    /\ \E out \in RunOutcomes :
        /\ out = "ok" => git.remote
        /\ Logged("git push -u origin HEAD", None, out)
        /\ IF out = "raise"
           THEN Raise(OSErrorOf("git")) /\ UNCHANGED <<git, push_error, notes>>
           ELSE IF out = "nonzero"
           THEN /\ push_error' = PublishError("PushFailed",
                                   <<"Git push failed: ", Stderr("git push -u origin HEAD")>>)
                /\ Noted(<<Note(<<"Git push failed, rolling back...">>, None)>>)
                /\ Goto("rollback_tag")
                /\ UNCHANGED git
           ELSE /\ git' = [git EXCEPT !.origin_commits = git.commits]
                /\ Goto("git_push_tags")
                /\ UNCHANGED <<push_error, notes>>
    /\ UNCHANGED <<args, pyproject, init, dist, registry, committed,
                   new_version, start>>

\* git push origin --tags with its exit status not looked at.
git_push_tags_unchecked ==
    /\ pc = "git_push_tags"
    /\ \E out \in RunOutcomes :
        /\ out = "ok" => git.remote
        /\ Logged("git push origin --tags", None, out)
        /\ IF out = "raise"
           THEN Raise(OSErrorOf("git")) /\ UNCHANGED <<git, push_error, notes>>
           ELSE /\ git' = IF out = "ok"
                          THEN [git EXCEPT !.origin_tags = @ \cup git.tags]
                          ELSE git
                /\ Goto(AfterGit)
                /\ UNCHANGED <<push_error, notes>>
    /\ UNCHANGED <<args, pyproject, init, dist, registry, committed,
                   new_version, start>>

\* git_push: git push origin --tags
git_push_tags ==
    /\ pc = "git_push_tags"
    /\ \E out \in RunOutcomes :
        /\ out = "ok" => git.remote
        /\ Logged("git push origin --tags", None, out)
        /\ IF out = "raise"
           THEN Raise(OSErrorOf("git")) /\ UNCHANGED <<git, push_error, notes>>
           ELSE IF out = "nonzero"
           THEN /\ push_error' = PublishError("PushFailed",
                                   <<"Git push tags failed: ", Stderr("git push origin --tags")>>)
                /\ Noted(<<Note(<<"Git push failed, rolling back...">>, None)>>)
                /\ Goto("rollback_tag")
                /\ UNCHANGED git
           ELSE /\ git' = [git EXCEPT !.origin_tags = @ \cup git.tags]
                /\ Goto(AfterGit)
                /\ UNCHANGED <<push_error, notes>>
    /\ UNCHANGED <<args, pyproject, init, dist, registry, committed,
                   new_version, start>>

\* git tag -d <version> with a nonzero status escalated as a failure of its own.
rollback_tag_escalates ==
    /\ pc = "rollback_tag"
    /\ \E out \in RunOutcomes :
        /\ Logged("git tag -d", new_version, out)
        /\ IF out = "raise" THEN Raise(OSErrorOf("git")) /\ UNCHANGED git
           ELSE IF out = "nonzero"
           THEN /\ Raise(PublishError("RollbackFailed",
                                      <<"Git tag -d failed: ", Stderr("git tag -d")>>))
                /\ UNCHANGED git
           ELSE /\ git' = [git EXCEPT !.tags = @ \ {new_version}]
                /\ Goto("rollback_reset")
    /\ UNCHANGED <<args, pyproject, init, dist, registry, committed,
                   new_version, push_error, notes, start>>

\* rollback_git: git tag -d <version>; the exit status is not looked at
rollback_tag ==
    /\ pc = "rollback_tag"
    /\ \E out \in RunOutcomes :
        /\ Logged("git tag -d", new_version, out)
        /\ IF out = "raise" THEN Raise(OSErrorOf("git")) /\ UNCHANGED git
           ELSE /\ git' = IF out = "ok" THEN [git EXCEPT !.tags = @ \ {new_version}]
                          ELSE git
                /\ Goto("rollback_reset")
    /\ UNCHANGED <<args, pyproject, init, dist, registry, committed,
                   new_version, push_error, notes, start>>

\* A reset that moves the branch back one commit and keeps the index and the files.
ResetKeepsFiles(g) ==
    [g EXCEPT !.commits = SubSeq(g.commits, 1, Len(g.commits) - 1)]

\* git reset --hard HEAD~1: the branch, the index and the tracked files go back one commit
ResetHard(g) ==
    LET kept == SubSeq(g.commits, 1, Len(g.commits) - 1)
    IN  [g EXCEPT !.commits = kept, !.index = kept[Len(kept)].tree,
                  !.uncommitted = FALSE]

\* The push handler's error without the push error it handles.
PushFailedRolledBackBare(e) ==
    PublishError("PushFailedRolledBack", <<"Git push failed. Changes rolled back.">>)

\* publish's push handler: raise PublishError(f"Git push failed: {e}. Changes rolled back.")
PushFailedRolledBack(e) ==
    PublishError("PushFailedRolledBack",
                 <<"Git push failed: ">> \o e.msg \o <<". Changes rolled back.">>)

\* rollback_git: git reset --hard HEAD~1 (status not looked at); then publish's
\* push handler raises
rollback_reset ==
    /\ pc = "rollback_reset"
    /\ \E out \in RunOutcomes :
        /\ out = "ok" => Len(git.commits) >= 2
        /\ Logged("git reset --hard HEAD~1", None, out)
        /\ IF out = "raise"
           THEN Raise(OSErrorOf("git")) /\ UNCHANGED <<git, pyproject, init>>
           ELSE /\ IF out = "ok"
                   THEN /\ git' = ResetHard(git)
                        /\ pyproject' = ResetHard(git).index.pyproject
                        /\ init' = ResetHard(git).index.init
                   ELSE UNCHANGED <<git, pyproject, init>>
                /\ Raise(PushFailedRolledBack(push_error))
    /\ UNCHANGED <<args, dist, registry, committed, new_version, push_error,
                   notes, start>>

\* Publisher.clean_dist: shutil.rmtree(dist) when dist/ exists
clean_dist ==
    /\ pc = "clean_dist"
    /\ IF ~dist.exists
       THEN Goto("build_package") /\ UNCHANGED <<dist, log>>
       ELSE \E io \in {"ok", "raise"} :
               /\ Logged("rmtree dist", None, io)
               /\ IF io = "raise"
                  THEN Raise(OSErrorOf("dist")) /\ UNCHANGED dist
                  ELSE /\ dist' = [exists |-> FALSE, built |-> None]
                       /\ Goto("build_package")
    /\ UNCHANGED <<args, pyproject, init, git, registry, committed,
                   new_version, push_error, notes, start>>

\* Publisher.build_package: python -m build builds the version the manifest holds
build_package ==
    /\ pc = "build_package"
    /\ \E out \in RunOutcomes :
        /\ Logged("python -m build", None, out)
        /\ IF out = "raise" THEN Raise(OSErrorOf("python")) /\ UNCHANGED dist
           ELSE IF out = "nonzero"
           THEN /\ Raise(PublishError("BuildFailed",
                                      <<"Build failed: ", Stderr("python -m build")>>))
                /\ UNCHANGED dist
           ELSE /\ dist' = [exists |-> TRUE, built |-> get_current_version(pyproject).val]
                /\ Goto("upload_to_pypi")
    /\ UNCHANGED <<args, pyproject, init, git, registry, committed,
                   new_version, push_error, notes, start>>

RetryCommand == "twine upload dist/*"

RevertCommands == "git reset --hard HEAD~1 && git tag -d {v} && git push origin --delete {v}"

\* The notes of publish's upload handler when the commit was pushed.
RecoveryNotes(version) ==
    << Note(<<"PyPI upload failed. Git changes were pushed.">>, None),
       Note(<<"To retry: ", RetryCommand>>, None),
       Note(<<"To rollback: ", RevertCommands>>, version) >>

\* publish's upload handler: raise PublishError(f"PyPI upload failed: {e}")
UploadFailure(e) == PublishError("UploadFailed", <<"PyPI upload failed: ">> \o e.msg)

\* Publisher.upload_to_pypi and publish's handler around it
upload_to_pypi ==
    /\ pc = "upload_to_pypi"
    /\ \E out \in RunOutcomes :
        /\ Logged("twine upload dist/*", None, out)
        /\ IF out = "raise"
           THEN Raise(OSErrorOf("twine")) /\ UNCHANGED <<registry, notes>>
           ELSE IF out = "nonzero"
           THEN /\ IF committed /\ ~args.skip_git
                   THEN Noted(RecoveryNotes(new_version))
                   ELSE UNCHANGED notes
                /\ Raise(UploadFailure(PublishError("UploadFailed",
                           <<"PyPI upload failed: ", Stderr("twine upload dist/*")>>)))
                /\ UNCHANGED registry
           ELSE /\ registry' = registry \cup {dist.built}
                /\ Goto(AfterPypi)
                /\ UNCHANGED notes
    /\ UNCHANGED <<args, pyproject, init, git, dist, committed, new_version,
                   push_error, start>>

\* publish's summary: git remote get-url origin (status not looked at), then return
summary_remote ==
    /\ pc = "summary_remote"
    /\ \E out \in RunOutcomes :
        /\ out = "ok" => git.remote
        /\ Logged("git remote get-url", None, out)
        /\ IF out = "raise" THEN Raise(OSErrorOf("git"))
           ELSE Return(new_version)
    /\ UNCHANGED <<args, pyproject, init, git, dist, registry, committed,
                   new_version, push_error, notes, start>>

Next ==
    \/ check_git_clean
    \/ check_git_remote
    \/ bump_version_step
    \/ update_version_files
    \/ git_add
    \/ git_add_init
    \/ git_commit
    \/ git_tag
    \/ git_push
    \/ git_push_tags
    \/ rollback_tag
    \/ rollback_reset
    \/ clean_dist
    \/ build_package
    \/ upload_to_pypi
    \/ summary_remote

Spec == Init /\ [][Next]_vars

(***************************************************************************)
(* What the properties below speak of                                      *)
(***************************************************************************)
Ops(S) == {i \in 1..Len(log) : log[i].op \in S}

StatusOp == "git status"

RemoteOp == "git remote get-url"

AddOps == {"git add pyproject.toml", "git add __init__.py"}

PushOps == {"git push -u origin HEAD", "git push origin --tags"}

RollbackOps == {"git tag -d", "git reset --hard HEAD~1"}

GitOps == {StatusOp, RemoteOp, "git commit", "git tag"} \cup AddOps \cup PushOps \cup RollbackOps

RegistryOps == {"rmtree dist", "python -m build", "twine upload dist/*"}

WriteOps == {"write pyproject", "write init"}

\* Three non-negative integer components, written without padding.
IsSemVer(s) ==
    /\ Len(s) = 3
    /\ \A i \in 1..3 : s[i].t = "int" /\ s[i].v >= 0 /\ s[i].z = 0

FilesAsAtStart == pyproject = start.pyproject /\ init = start.init

\* The documented arithmetic of a bump of a version (M, m, p).
Documented(v, kind) ==
    CASE kind = "major" -> Ver(v[1].v + 1, 0, 0)
      [] kind = "minor" -> Ver(v[1].v, v[2].v + 1, 0)
      [] kind = "patch" -> Ver(v[1].v, v[2].v, v[3].v + 1)

StartVersion == get_current_version(start.pyproject)

Has(msg, piece) == \E i \in 1..Len(msg) : msg[i] = piece

(***************************************************************************)
(* C1: a dry run of publish returns the bumped version (the documented     *)
(* arithmetic on the manifest's version) and changes nothing: the manifest,*)
(* the marker, the repository (commits, tags, index, origin), dist/ and    *)
(* the registry are as at the call, and after the version is computed no   *)
(* command is run and no file is written.                                  *)
(***************************************************************************)
C1_DryRunChangesNothing ==
    (args.entry = "publish" /\ args.dry_run) =>
        /\ FilesAsAtStart
        /\ git = start.git
        /\ registry = {}
        /\ dist.built = None
        /\ Ops(WriteOps \cup RegistryOps \cup AddOps \cup PushOps \cup RollbackOps
               \cup {"git commit", "git tag"}) = {}
        /\ \A i \in Ops({"bump_version"}) : i = Len(log)
        /\ pc = "returned" =>
              /\ log[Len(log)].op = "bump_version"
              /\ result = new_version
              /\ (StartVersion.ok /\ IsSemVer(StartVersion.val)) =>
                     result = Documented(StartVersion.val, args.bump_type)

C1_Witness ==
    /\ args.entry = "publish" /\ args.dry_run /\ ~args.skip_git /\ ~args.skip_pypi
    /\ args.bump_type = "patch"
    /\ pc = "returned"
    /\ StartVersion.val = Ver(1, 0, 1)
    /\ result = Ver(1, 0, 2)
    /\ init.exists

(***************************************************************************)
(* C2: when commit and tag succeeded and a push (of the branch or of the   *)
(* tags) exits nonzero, the next command is the deletion of the local tag  *)
(* named by the new version, the one after it the hard reset to HEAD~1,    *)
(* and nothing follows; publish then fails with PushFailedRolledBack,      *)
(* whose message holds the push's error text; dist/ is not removed and     *)
(* neither build nor upload is run.  (The rollback commands are taken to   *)
(* start: each returns an exit status.)                                    *)
(***************************************************************************)
C2_PushFailureRollsBack ==
    \A i \in Ops(PushOps) :
        log[i].res = "nonzero" =>
            /\ committed
            /\ Ops({"git commit", "git tag"}) # {}
            /\ \A k \in Ops({"git commit", "git tag"}) : k < i /\ log[k].res = "ok"
            /\ Ops(RegistryOps) = {}
            /\ Len(log) <= i + 2
            /\ Len(log) > i =>
                  log[i + 1].op = "git tag -d" /\ log[i + 1].arg = new_version
            /\ Len(log) > i + 1 => log[i + 2].op = "git reset --hard HEAD~1"
            /\ pc \in {"rollback_tag", "rollback_reset", "raised"}
            /\ (pc = "raised" /\ \A j \in Ops(RollbackOps) : log[j].res # "raise") =>
                  /\ Len(log) = i + 2
                  /\ error.exc = "PublishError"
                  /\ error.kind = "PushFailedRolledBack"
                  /\ Has(error.msg, Stderr(log[i].op))
                  /\ Has(error.msg, ". Changes rolled back.")

C2_Witness ==
    /\ pc = "raised"
    /\ error.kind = "PushFailedRolledBack"
    /\ Len(log) >= 3
    /\ log[Len(log) - 2].op = "git push origin --tags"
    /\ log[Len(log) - 2].res = "nonzero"
    /\ log[Len(log) - 1].res = "nonzero"
    /\ Has(error.msg, Stderr("git push origin --tags"))

(***************************************************************************)
(* C3: when commit, tag and both pushes succeeded and the upload exits     *)
(* nonzero, publish raises UploadFailed and the message of that failure    *)
(* holds the retry command of the upload and the commands that revert the  *)
(* pushed commit and tag.                                                  *)
(***************************************************************************)
UploadFailedAfterPush ==
    /\ args.entry = "publish" /\ ~args.skip_git /\ ~args.skip_pypi
    /\ pc = "raised"
    /\ \A i \in Ops(PushOps \cup {"git commit", "git tag"}) : log[i].res = "ok"
    /\ Ops(PushOps) # {}
    /\ log[Len(log)].op = "twine upload dist/*"
    /\ log[Len(log)].res = "nonzero"

C3_UploadFailureMessageGuides ==
    UploadFailedAfterPush =>
        /\ error.exc = "PublishError"
        /\ error.kind = "UploadFailed"
        /\ Has(error.msg, RetryCommand)
        /\ Has(error.msg, RevertCommands)

(***************************************************************************)
(* C4: the rollback commands (deletion of the local tag, hard reset) are   *)
(* never run after a push to the remote succeeded in the same run, also    *)
(* when the push of the branch succeeded and the push of the tags failed.  *)
(***************************************************************************)
C4_NoRollbackOncePublic ==
    \A i \in Ops(PushOps), j \in Ops(RollbackOps) : ~(log[i].res = "ok" /\ i < j)

(***************************************************************************)
(* C5: with version control not skipped, when the status query succeeds    *)
(* and reports uncommitted changes, publish fails with DirtyWorkingTree    *)
(* and that query is all that happened: the manifest, the marker and the   *)
(* repository are as at the call, and no add, commit, tag, push, build or  *)
(* upload is run.                                                          *)
(***************************************************************************)
C5_DirtyTreeStopsBeforeMutation ==
    ( /\ args.entry = "publish" /\ ~args.skip_git
      /\ start.git.uncommitted
      /\ log # <<>> /\ log[1].res = "ok" ) =>
        /\ log[1].op = StatusOp
        /\ Len(log) = 1
        /\ pc = "raised"
        /\ error.exc = "PublishError"
        /\ error.kind = "DirtyWorkingTree"
        /\ FilesAsAtStart
        /\ git = start.git
        /\ dist.built = None /\ registry = {}

C5_Witness ==
    /\ args.entry = "publish" /\ ~args.skip_git /\ ~args.dry_run
    /\ start.git.uncommitted
    /\ pc = "raised"
    /\ error.kind = "DirtyWorkingTree"
    /\ log = <<[op |-> StatusOp, arg |-> None, res |-> "ok"]>>

(***************************************************************************)
(* C6: publish fails fast.  A command or file operation that fails (exits  *)
(* nonzero, or raises) is the last operation of the run, except that a     *)
(* push that exits nonzero is followed by the rollback commands and by     *)
(* nothing else, and a tag deletion that exits nonzero by the hard reset.  *)
(* A step that raises without a failing command (dirty tree, unreadable    *)
(* version, invalid bump kind) ends the run as well: once an error has     *)
(* left the call no step is taken.                                         *)
(***************************************************************************)
C6_FailFast ==
    /\ \A i \in 1..Len(log) :
          log[i].res # "ok" =>
              \/ i = Len(log)
              \/ /\ log[i].op \in PushOps /\ log[i].res = "nonzero"
                 /\ \A j \in (i + 1)..Len(log) : log[j].op \in RollbackOps
              \/ /\ log[i].op = "git tag -d" /\ log[i].res = "nonzero"
                 /\ Len(log) = i + 1
                 /\ log[i + 1].op = "git reset --hard HEAD~1"
    /\ error # NoError => pc = "raised"
    /\ pc = "raised" => error # NoError /\ ~ENABLED Next

C6_Witness ==
    /\ pc = "raised"
    /\ Len(log) >= 2
    /\ log[Len(log)].op = "git add __init__.py"
    /\ log[Len(log)].res = "nonzero"
    /\ error.kind = "CommandFailed"
    /\ pyproject # start.pyproject
    /\ git.commits = start.git.commits

(***************************************************************************)
(* C7: with a bump kind outside {major, minor, patch}, under every flag    *)
(* combination, neither publish nor bump_version returns a version, the    *)
(* manifest, the marker and the repository stay as at the call, and no     *)
(* file write, add, commit, tag, push, build or upload happens; the run    *)
(* that reaches the bump with a manifest whose version pieces are integer  *)
(* literals fails with InvalidBumpKind, naming the kind.                   *)
(***************************************************************************)
ValidKinds == {"major", "minor", "patch"}

C7_InvalidBumpKindTouchesNothing ==
    args.bump_type \notin ValidKinds =>
        /\ pc # "returned"
        /\ result = None
        /\ FilesAsAtStart
        /\ git = start.git
        /\ dist = start.dist /\ registry = {}
        /\ Ops(WriteOps \cup AddOps \cup PushOps \cup RollbackOps \cup RegistryOps
               \cup {"git commit", "git tag"}) = {}
        /\ ( /\ Ops({"bump_version"}) # {}
             /\ StartVersion.ok
             /\ \A i \in 1..Len(StartVersion.val) : IsIntLiteral(StartVersion.val[i]) ) =>
              /\ pc = "raised"
              /\ error.exc = "PublishError"
              /\ error.kind = "InvalidBumpKind"
              /\ Has(error.msg, args.bump_type)

C7_Witness ==
    /\ args.entry = "publish" /\ ~args.skip_git /\ ~args.skip_pypi /\ ~args.dry_run
    /\ args.bump_type = "bogus"
    /\ pc = "raised"
    /\ error.kind = "InvalidBumpKind"
    /\ Len(log) = 3
    /\ init.exists

(***************************************************************************)
(* C8: a run of publish ends by returning a version or by raising          *)
(* PublishError, and nothing else leaves it: a nonzero exit status, an     *)
(* OSError of subprocess.run at any command (staging and rollback          *)
(* included), a failing file write and a version that does not parse all   *)
(* arrive at the caller as PublishError.                                   *)
(***************************************************************************)
C8_OneFailureKind ==
    args.entry = "publish" =>
        /\ error # NoError => error.exc = "PublishError"
        /\ pc = "raised" => error.exc = "PublishError" /\ result = None
        /\ pc = "returned" => result # None /\ result = new_version /\ error = NoError
        /\ ~ENABLED Next => pc \in {"returned", "raised"}

C8_Witness ==
    /\ args.entry = "publish"
    /\ pc = "raised"
    /\ log[Len(log)].op = "git tag -d"
    /\ log[Len(log)].res = "raise"
    /\ error.exc = "PublishError"
    /\ error.kind = "Unexpected"

(***************************************************************************)
(* C9: a step gated by a set skip flag runs nothing.  With skip_git no     *)
(* version-control command is run from the call to its return (none after  *)
(* a successful upload either) and the repository is untouched; with       *)
(* skip_pypi dist/ is not removed and neither build nor upload is run.     *)
(* In both cases, when dry_run is false, writing the version files is the  *)
(* step that follows the bump, and a run that returns leaves the new       *)
(* version in the manifest and in the marker's assignment.                 *)
(***************************************************************************)
C9_SkippedStepsRunNothing ==
    args.entry = "publish" =>
        /\ args.skip_git => Ops(GitOps) = {} /\ git = start.git /\ ~committed
        /\ args.skip_pypi =>
              Ops(RegistryOps) = {} /\ dist = start.dist /\ registry = {}
        /\ ((args.skip_git \/ args.skip_pypi) /\ ~args.dry_run) =>
              /\ \A i \in Ops({"bump_version"}) :
                    (log[i].res = "ok" /\ pc # "update_version_files") =>
                        /\ Len(log) > i
                        /\ log[i + 1].op = "write pyproject"
                        /\ log[i + 1].arg = new_version
              /\ pc = "returned" =>
                    /\ get_current_version(pyproject) = Ok(result)
                    /\ pyproject # start.pyproject
                    /\ \A k \in 1..Len(init.content) :
                          InitPattern(init.content[k]) => init.content[k].val = result

C9_Witness ==
    /\ args.entry = "publish" /\ args.skip_git /\ ~args.skip_pypi /\ ~args.dry_run
    /\ pc = "returned"
    /\ result \in registry
    /\ log[Len(log)].op = "twine upload dist/*"
    /\ get_current_version(pyproject) = Ok(result)

(***************************************************************************)
(* C10: with version control not skipped the status query is the first     *)
(* operation and the query for origin the second.  A status query that     *)
(* exits nonzero fails publish with the version-control command failure    *)
(* (not DirtyWorkingTree, and the tree does not count as clean), a remote  *)
(* query that exits nonzero with NoRemoteConfigured; both before the       *)
(* version is read and with the files and the repository untouched.  The   *)
(* version is read only after both queries succeeded.                      *)
(***************************************************************************)
C10_PreflightOrder ==
    (args.entry = "publish" /\ ~args.skip_git /\ log # <<>>) =>
        /\ log[1].op = StatusOp
        /\ log[1].res = "nonzero" =>
              /\ Len(log) = 1 /\ pc = "raised"
              /\ error.exc = "PublishError" /\ error.kind = "GitCommandFailed"
              /\ Has(error.msg, Stderr(StatusOp))
              /\ FilesAsAtStart /\ git = start.git /\ new_version = None
        /\ Len(log) >= 2 =>
              /\ log[1].res = "ok" /\ ~start.git.uncommitted
              /\ log[2].op = RemoteOp
        /\ (Len(log) >= 2 /\ log[2].res = "nonzero") =>
              /\ Len(log) = 2 /\ pc = "raised"
              /\ error.exc = "PublishError" /\ error.kind = "NoRemoteConfigured"
              /\ FilesAsAtStart /\ git = start.git /\ new_version = None
        /\ Len(log) >= 3 =>
              /\ log[2].res = "ok" /\ start.git.remote
              /\ log[3].op = "bump_version"

C10_Witness ==
    /\ args.entry = "publish" /\ ~args.skip_git /\ ~args.dry_run
    /\ ~start.git.remote
    /\ pc = "raised"
    /\ error.kind = "NoRemoteConfigured"
    /\ Len(log) = 2
    /\ log[1] = [op |-> StatusOp, arg |-> None, res |-> "ok"]
    /\ log[2] = [op |-> RemoteOp, arg |-> None, res |-> "nonzero"]

(***************************************************************************)
(* C11: for every manifest version (M, m, p) of three non-negative         *)
(* integers and every kind, bump_version returns (M+1, 0, 0) for major,    *)
(* (M, m+1, 0) for minor and (M, m, p+1) for patch: one component goes up  *)
(* by one, the lower ones are zeroed, the higher ones are kept; and the    *)
(* manifest is as it was when bump_version has returned.                   *)
(***************************************************************************)
\* Three integer literals, none negative (padding allowed).
IsTriple(s) ==
    /\ Len(s) = 3
    /\ \A i \in 1..3 : IsIntLiteral(s[i]) /\ IntOf(s[i]) >= 0

C11_BumpArithmetic ==
    \A i \in Ops({"bump_version"}) :
        (StartVersion.ok /\ IsTriple(StartVersion.val) /\ args.bump_type \in ValidKinds) =>
            LET old == StartVersion.val
                new == log[i].arg
            IN  /\ log[i].res = "ok"
                /\ new = Documented(old, args.bump_type)
                /\ Len(new) = 3
                /\ args.bump_type = "major" =>
                      new[1].v = old[1].v + 1 /\ new[2].v = 0 /\ new[3].v = 0
                /\ args.bump_type = "minor" =>
                      new[1].v = old[1].v /\ new[2].v = old[2].v + 1 /\ new[3].v = 0
                /\ args.bump_type = "patch" =>
                      new[1].v = old[1].v /\ new[2].v = old[2].v /\ new[3].v = old[3].v + 1
                /\ i = Len(log) => FilesAsAtStart
                /\ args.entry = "bump_version" =>
                      pc = "returned" /\ result = new /\ FilesAsAtStart

C11_Witness ==
    /\ args.entry = "bump_version"
    /\ args.bump_type = "minor"
    /\ StartVersion.val = Ver(1, 1, 1)
    /\ pc = "returned"
    /\ result = Ver(1, 2, 0)
    /\ pyproject = start.pyproject

(***************************************************************************)
(* C12: update_version_files leaves the manifest as it was except for the  *)
(* value of the version field, the first version assignment (the one       *)
(* get_current_version returns): also when the manifest holds further      *)
(* assignments whose key ends in "version", or several version             *)
(* assignments, that one value is all that differs after the write.        *)
(***************************************************************************)
\* The manifest has been written and no hard reset has restored it.
ManifestWritten ==
    /\ \E i \in Ops({"write pyproject"}) : log[i].res = "ok"
    /\ \A i \in Ops({"git reset --hard HEAD~1"}) : log[i].res # "ok"

C12_OnlyVersionValueChanges ==
    ManifestWritten =>
        LET old == start.pyproject.content
            k   == SearchVersion(old)
        IN  /\ pyproject.exists
            /\ Len(pyproject.content) = Len(old)
            /\ \A i \in 1..Len(old) :
                  pyproject.content[i] =
                      IF i = k THEN [old[i] EXCEPT !.val = new_version] ELSE old[i]

(***************************************************************************)
(* C13: without a marker file update_version_files succeeds, puts the new  *)
(* version into the manifest and creates no marker, and the commit step    *)
(* stages the manifest alone; with a marker file, its __version__          *)
(* assignment is rewritten to the same new version and the marker is       *)
(* staged (and committed) too.                                             *)
(***************************************************************************)
CommitMade == Len(git.commits) > Len(start.git.commits)

NotReset == \A i \in Ops({"git reset --hard HEAD~1"}) : log[i].res # "ok"

C13_MarkerOptional ==
    /\ ~start.init.exists =>
          /\ init = start.init
          /\ Ops({"write init", "git add __init__.py"}) = {}
          /\ \A i \in Ops({"write pyproject"}) :
                (log[i].res = "ok" /\ i = Len(log)) => pc # "raised" /\ error = NoError
          /\ ManifestWritten => get_current_version(pyproject) = Ok(new_version)
          /\ \A j \in Ops({"git commit"}) :
                j > 1 /\ log[j - 1].op = "git add pyproject.toml" /\ log[j - 1].res = "ok"
          /\ CommitMade =>
                /\ HeadCommit(git).tree.pyproject = pyproject
                /\ ~HeadCommit(git).tree.init.exists
    /\ start.init.exists =>
          /\ init.exists
          /\ \A i \in Ops({"write pyproject"}) :
                (log[i].res = "ok" /\ pc # "update_version_files") =>
                    Len(log) > i /\ log[i + 1].op = "write init"
          /\ ((\E i \in Ops({"write init"}) : log[i].res = "ok") /\ NotReset) =>
                /\ Len(init.content) = Len(start.init.content)
                /\ \A k \in 1..Len(init.content) :
                      init.content[k] =
                          IF InitPattern(start.init.content[k])
                          THEN [start.init.content[k] EXCEPT !.val = new_version]
                          ELSE start.init.content[k]
                /\ get_current_version(pyproject) = Ok(new_version)
          /\ \A j \in Ops({"git commit"}) :
                /\ j > 2
                /\ log[j - 2].op = "git add pyproject.toml" /\ log[j - 2].res = "ok"
                /\ log[j - 1].op = "git add __init__.py" /\ log[j - 1].res = "ok"
          /\ CommitMade =>
                /\ HeadCommit(git).tree.pyproject = pyproject
                /\ HeadCommit(git).tree.init = init

C13_Witness ==
    /\ ~start.init.exists /\ ~init.exists
    /\ args.entry = "publish" /\ ~args.skip_git
    /\ CommitMade
    /\ pc = "returned"
    /\ get_current_version(pyproject) = Ok(result)
    /\ pyproject # start.pyproject

(***************************************************************************)
(* C14: get_current_version returns the value of the first assignment in   *)
(* the manifest that the pattern version = "<value>" matches (either quote *)
(* style, anywhere in the file), raises ManifestMissing when the manifest  *)
(* does not exist and VersionFieldMissing when no assignment matches, and  *)
(* leaves the manifest as it was.                                          *)
(***************************************************************************)
Quotes == {"\"", "'"}

IsVersionAssignment(line) ==
    /\ line.key \in {"version", "target-version", "__version__"}
    /\ line.q1 \in Quotes /\ line.q2 \in Quotes
    /\ line.val # None

MaxRuns == 2

\* The versions of the manifests the repeated calls start from.
VersionsAgain == {Ver(0, 0, 0), Ver(0, 1, 1), Ver(1, 0, 1)}

\* The calls that reach the push: publish with skip_git and dry_run false and the
\* default commit message, on a manifest whose version bump_version accepts.
InitAgain ==
    /\ Init
    /\ args.entry = "publish" /\ ~args.skip_git /\ ~args.dry_run
    /\ args.commit_msg = "None"
    /\ get_current_version(pyproject).ok
    /\ get_current_version(pyproject).val \in VersionsAgain

\* The caller runs publish again, with the same options, after the run that
\* raised "Git push failed ... Changes rolled back.": the locals of publish
\* start afresh, the files and the repository are what the first run left.
publish_again ==
    /\ pc = "raised" /\ error.kind = "PushFailedRolledBack"
    /\ Cardinality(Ops({"publish"})) + 1 < MaxRuns
    /\ Logged("publish", new_version, "ok")
    /\ pc' = IF args.skip_git THEN "bump_version" ELSE "check_git_clean"
    /\ committed' = FALSE
    /\ new_version' = None
    /\ push_error' = NoError
    /\ result' = None
    /\ error' = NoError
    /\ UNCHANGED <<args, pyproject, init, git, dist, registry, notes, start>>

NextAgain == Next \/ publish_again

SpecAgain == InitAgain /\ [][NextAgain]_vars

(***************************************************************************)
(* The fixed order of the operations of publish                            *)
(***************************************************************************)
\* The operations of the workflow in their order.
Order ==
    << StatusOp, RemoteOp, "bump_version", "write pyproject", "write init",
       "git add pyproject.toml", "git add __init__.py", "git commit", "git tag",
       "git push -u origin HEAD", "git push origin --tags",
       "rmtree dist", "python -m build", "twine upload dist/*" >>

Listed == {Order[r] : r \in 1..Len(Order)}

RankOf == [op \in Listed |-> CHOOSE r \in 1..Len(Order) : Order[r] = op]

Rank(op) == RankOf[op]

\* The operations the flags and the files at the call leave in the workflow.
EnabledOps ==
    {"bump_version"}
    \cup (IF args.dry_run THEN {} ELSE
             {"write pyproject"}
             \cup (IF start.init.exists THEN {"write init"} ELSE {})
             \cup (IF args.skip_git THEN {} ELSE
                      {"git add pyproject.toml", "git commit", "git tag"} \cup PushOps
                      \cup (IF start.init.exists THEN {"git add __init__.py"} ELSE {}))
             \cup (IF args.skip_pypi THEN {} ELSE
                      {"python -m build", "twine upload dist/*"}
                      \cup (IF start.dist.exists THEN {"rmtree dist"} ELSE {})))
    \cup (IF args.skip_git THEN {} ELSE {StatusOp, RemoteOp})

\* Before the i-th operation every enabled operation of a lower rank was performed.
PrefixRespecting(i, enabled) ==
    \A op \in enabled :
        Rank(op) < Rank(log[i].op) => \E j \in 1..(i - 1) : log[j].op = op

\* The remote query of the summary: a remote query after the version was bumped.
IsSummaryQuery(i) ==
    /\ log[i].op = RemoteOp
    /\ \E j \in 1..(i - 1) : log[j].op = "bump_version"

(***************************************************************************)
(* C15 as stated: in every run of publish the listed operations occur in   *)
(* the fixed order, none before an earlier operation that the flags        *)
(* enable, and none twice.                                                 *)
(***************************************************************************)
C15_FixedOrderNoneTwice ==
    args.entry = "publish" =>
        \E listed \in {Ops(Listed)}, enabled \in {EnabledOps} :
            /\ \A i, j \in listed : i < j => Rank(log[i].op) < Rank(log[j].op)
            /\ \A i \in listed : PrefixRespecting(i, enabled)

(***************************************************************************)
(* C15: in every run of publish the operations of the workflow occur in    *)
(* the fixed order, none before an earlier operation that the flags        *)
(* enable and none twice, with two additions: after a push that exits      *)
(* nonzero the tag deletion and then the hard reset are run, once, and     *)
(* nothing follows them; and a run with version control in which every     *)
(* step succeeded ends with a second remote query.                         *)
(***************************************************************************)
C15_FixedOrder ==
    args.entry = "publish" =>
        \E main \in {{i \in Ops(Listed) : ~IsSummaryQuery(i)}}, enabled \in {EnabledOps} :
            /\ \A i \in 1..Len(log) : log[i].op \in Listed \cup RollbackOps
            /\ \A i, j \in main : i < j => Rank(log[i].op) < Rank(log[j].op)
            /\ \A i \in main : PrefixRespecting(i, enabled)
            /\ \A i \in 1..Len(log) : IsSummaryQuery(i) =>
                  /\ i = Len(log)
                  /\ ~args.skip_git
                  /\ \A op \in enabled : \E j \in 1..(i - 1) : log[j].op = op
                  /\ \A j \in 1..(i - 1) : log[j].res = "ok" /\ ~IsSummaryQuery(j)
            /\ \A i \in Ops({"git tag -d"}) :
                  /\ i > 1
                  /\ log[i - 1].op \in PushOps /\ log[i - 1].res = "nonzero"
                  /\ i < Len(log) => i + 1 = Len(log)
            /\ \A i \in Ops({"git reset --hard HEAD~1"}) :
                  /\ i > 1
                  /\ log[i - 1].op = "git tag -d"
                  /\ i = Len(log)

C15_Witness ==
    /\ args.entry = "publish" /\ ~args.skip_git /\ ~args.skip_pypi /\ ~args.dry_run
    /\ start.init.exists /\ start.dist.exists
    /\ pc = "returned"
    /\ Len(log) = Len(Order) + 1
    /\ \A r \in 1..Len(Order) : log[r].op = Order[r]
    /\ log[Len(log)].op = RemoteOp

(***************************************************************************)
(* C16: the tag deletion and the hard reset are run if and only if a push  *)
(* exited nonzero after the commit and the tag succeeded (the reset once   *)
(* the tag deletion returned).  After a failure of staging, commit, tag    *)
(* creation, build or upload nothing is undone: the version files keep the *)
(* bumped version and a commit or tag already created or pushed stays.     *)
(***************************************************************************)
Succeeded(op) == \E i \in Ops({op}) : log[i].res = "ok"

NoRollbackSteps == AddOps \cup RegistryOps \cup {"git commit", "git tag"}

C16_RollbackOnlyForPush ==
    /\ \A i \in Ops({"git tag -d"}) :
          /\ i > 1
          /\ log[i - 1].op \in PushOps /\ log[i - 1].res = "nonzero"
          /\ \E j \in 1..(i - 1) : log[j].op = "git commit" /\ log[j].res = "ok"
          /\ \E j \in 1..(i - 1) : log[j].op = "git tag" /\ log[j].res = "ok"
    /\ \A i \in Ops({"git reset --hard HEAD~1"}) :
          i > 1 /\ log[i - 1].op = "git tag -d" /\ log[i - 1].res # "raise"
    /\ \A i \in Ops(PushOps) :
          log[i].res = "nonzero" =>
              /\ pc # "rollback_tag" => Len(log) > i /\ log[i + 1].op = "git tag -d"
              /\ (Len(log) > i /\ log[i + 1].res # "raise" /\ pc # "rollback_reset") =>
                    Len(log) > i + 1 /\ log[i + 2].op = "git reset --hard HEAD~1"
    /\ (/\ pc = "raised" /\ log # <<>>
        /\ log[Len(log)].op \in NoRollbackSteps
        /\ log[Len(log)].res # "ok") =>
          /\ Ops(RollbackOps) = {}
          /\ get_current_version(pyproject) = Ok(new_version)
          /\ pyproject = File(SubPyproject(start.pyproject.content, new_version))
          /\ init = IF start.init.exists
                    THEN File(SubInit(start.init.content, new_version))
                    ELSE start.init
          /\ Succeeded("git commit") =>
                /\ Len(git.commits) = Len(start.git.commits) + 1
                /\ HeadCommit(git).tree = Snapshot(pyproject, init)
          /\ Succeeded("git tag") => new_version \in git.tags
          /\ Succeeded("git push -u origin HEAD") => git.origin_commits = git.commits
          /\ Succeeded("git push origin --tags") => new_version \in git.origin_tags

C16_Witness ==
    /\ pc = "raised" /\ error.kind = "BuildFailed"
    /\ ~args.skip_git
    /\ Ops(RollbackOps) = {}
    /\ Len(git.commits) = Len(start.git.commits) + 1
    /\ git.origin_commits = git.commits
    /\ new_version \in git.origin_tags
    /\ get_current_version(pyproject) = Ok(new_version)
    /\ pyproject # start.pyproject

(***************************************************************************)
(* C17: a rollback command that reports a nonzero status is not escalated: *)
(* after a tag deletion that exits nonzero the hard reset is still run,    *)
(* and when the rollback commands returned, with whatever status, publish  *)
(* raises PushFailedRolledBack with the text of the push error and nothing *)
(* about the rollback commands; what a failed command did not undo stays.  *)
(***************************************************************************)
C17_RollbackBestEffort ==
    \A i \in Ops({"git tag -d"}) :
        LET push == log[i - 1].op
        IN  /\ log[i].res = "nonzero" =>
                  /\ pc # "raised" => pc = "rollback_reset" /\ i = Len(log)
                  /\ pc = "raised" =>
                        Len(log) = i + 1 /\ log[i + 1].op = "git reset --hard HEAD~1"
                  /\ new_version \in git.tags
            /\ (/\ pc = "raised" /\ Len(log) = i + 1
                /\ log[i].res # "raise" /\ log[i + 1].res # "raise"
                /\ "nonzero" \in {log[i].res, log[i + 1].res}) =>
                  /\ error.exc = "PublishError"
                  /\ error.kind = "PushFailedRolledBack"
                  /\ error = PushFailedRolledBack(push_error)
                  /\ Has(error.msg, Stderr(push))
                  /\ ~Has(error.msg, Stderr("git tag -d"))
                  /\ ~Has(error.msg, Stderr("git reset --hard HEAD~1"))
                  /\ log[i + 1].res = "nonzero" =>
                        /\ Len(git.commits) = Len(start.git.commits) + 1
                        /\ get_current_version(pyproject) = Ok(new_version)

C17_Witness ==
    /\ pc = "raised"
    /\ Len(log) >= 3
    /\ log[Len(log) - 2].op = "git push -u origin HEAD"
    /\ log[Len(log) - 1].op = "git tag -d" /\ log[Len(log) - 1].res = "nonzero"
    /\ log[Len(log)].op = "git reset --hard HEAD~1" /\ log[Len(log)].res = "nonzero"
    /\ error.kind = "PushFailedRolledBack"
    /\ Has(error.msg, Stderr("git push -u origin HEAD"))
    /\ new_version \in git.tags
    /\ Len(git.commits) = Len(start.git.commits) + 1

(***************************************************************************)
(* C18: every version that bump_version or publish returns, writes to the  *)
(* version files or uses as a tag name has exactly three non-negative      *)
(* integer components, and a manifest version that is not such a triple    *)
(* leads to a failure.                                                     *)
(***************************************************************************)
C18_AlwaysThreeNonNegative ==
    /\ \A i \in Ops({"bump_version"}) :
          /\ log[i].res = "ok" => IsTriple(log[i].arg)
          /\ (StartVersion.ok /\ ~IsTriple(StartVersion.val)) => log[i].res = "raise"
    /\ pc = "returned" => IsTriple(result)
    /\ \A i \in Ops(WriteOps \cup {"git tag"}) : IsTriple(log[i].arg)
    /\ \A v \in git.tags : IsTriple(v)

(***************************************************************************)
(* C19: when publish returns with dry_run false, the returned version is   *)
(* the version get_current_version reads from the manifest afterwards, the *)
(* version of the marker's __version__ assignment when the marker has one, *)
(* and, with skip_git false, the name of the tag that was created and      *)
(* pushed; it is bump_version of the manifest's version at the call, for   *)
(* every combination of skip_git and skip_pypi.                            *)
(***************************************************************************)
C19_OneVersionEverywhere ==
    (args.entry = "publish" /\ pc = "returned" /\ ~args.dry_run) =>
        /\ result = new_version
        /\ result # None
        /\ get_current_version(pyproject) = Ok(result)
        /\ init.exists = start.init.exists
        /\ init.exists =>
              \A k \in 1..Len(init.content) :
                  InitPattern(init.content[k]) => init.content[k].val = result
        /\ ~args.skip_git =>
              /\ \E i \in Ops({"git tag"}) : log[i].res = "ok" /\ log[i].arg = result
              /\ \A i \in Ops({"git tag"}) : log[i].arg = result
              /\ git.tags = start.git.tags \cup {result}
              /\ result \in git.origin_tags
              /\ HeadCommit(git).tree = Snapshot(pyproject, init)
              /\ git.origin_commits = git.commits
        /\ args.skip_git => Ops({"git tag"}) = {} /\ git = start.git
        /\ bump_version(start.pyproject, args.bump_type) = Ok(result)
        /\ IsTriple(StartVersion.val) => result = Documented(StartVersion.val, args.bump_type)

C19_Witness ==
    /\ args.entry = "publish" /\ pc = "returned"
    /\ ~args.dry_run /\ ~args.skip_git /\ ~args.skip_pypi
    /\ args.bump_type = "minor"
    /\ StartVersion = Ok(Ver(1, 0, 1))
    /\ result = Ver(1, 1, 0)
    /\ get_current_version(pyproject) = Ok(Ver(1, 1, 0))
    /\ init.exists /\ InitPattern(init.content[1]) /\ init.content[1].val = Ver(1, 1, 0)
    /\ Ver(1, 1, 0) \in git.origin_tags

(***************************************************************************)
(* C20: with skip_git false, the build-output directory is removed and the *)
(* build and upload commands are run only after the commit, the tag, the   *)
(* branch push and the tags push of the same run have all succeeded: what  *)
(* is built and uploaded is the pushed commit, under the pushed tag.       *)
(***************************************************************************)
RegistrySteps == {"clean_dist", "build_package", "upload_to_pypi"}

Published ==
    /\ \A op \in {"git commit", "git tag"} \cup PushOps :
          /\ Ops({op}) # {}
          /\ \A i \in Ops({op}) : log[i].res = "ok"
    /\ Ops(RollbackOps) = {}
    /\ Len(git.commits) = Len(start.git.commits) + 1
    /\ HeadCommit(git).tree = Snapshot(pyproject, init)
    /\ git.origin_commits = git.commits
    /\ new_version \in git.tags /\ new_version \in git.origin_tags

C20_ReleaseOnlyPublishedSource ==
    (args.entry = "publish" /\ ~args.skip_git) =>
        /\ pc \in RegistrySteps => Published
        /\ \A i \in Ops(RegistryOps) :
              /\ Published
              /\ \A op \in {"git commit", "git tag"} \cup PushOps :
                    \E j \in 1..(i - 1) : log[j].op = op /\ log[j].res = "ok"
        /\ (dist # start.dist \/ registry # {}) => Published
        /\ \A v \in registry : v = new_version

C20_Witness ==
    /\ args.entry = "publish" /\ ~args.skip_git /\ ~args.skip_pypi
    /\ start.dist.exists
    /\ registry = {new_version} /\ new_version # None
    /\ Ops(RegistryOps) # {}
    /\ \A i \in Ops(RegistryOps) : log[i].res = "ok"
    /\ new_version \in git.origin_tags
    /\ git.origin_commits = git.commits

(***************************************************************************)
(* C21: when publish starts from a clean working tree, the branch push     *)
(* exits nonzero and both rollback commands succeed, then after publish    *)
(* has failed the manifest and the marker hold what they held before the   *)
(* run, the branch is at the commit it was at, and the tag of the new      *)
(* version does not exist locally; a second publish with the same options  *)
(* passes the clean-tree and remote checks (when their commands exit 0)    *)
(* and computes the same new version as the first run.                     *)
(***************************************************************************)
Restarts == Ops({"publish"})

\* The last operation of the first run.
FirstEnd ==
    IF Restarts = {} THEN Len(log)
    ELSE (CHOOSE m \in Restarts : \A n \in Restarts : m <= n) - 1

\* The operations of the second run, the first run ending at fe.
SecondRun(fe) ==
    {i \in (fe + 2)..Len(log) : \A j \in (fe + 2)..i : log[j].op # "publish"}

\* The first run, ending at fe, is over; its branch push exited nonzero and both
\* rollback commands succeeded.
FirstRunRolledBack(fe) ==
    /\ fe >= 3
    /\ log[fe].op = "git reset --hard HEAD~1" /\ log[fe].res = "ok"
    /\ log[fe - 1].op = "git tag -d" /\ log[fe - 1].res = "ok"
    /\ log[fe - 2].op = "git push -u origin HEAD" /\ log[fe - 2].res = "nonzero"
    /\ fe = Len(log) => pc = "raised"
    /\ ~start.git.uncommitted

LocalStateRestored(version) ==
    /\ pyproject = start.pyproject
    /\ init = start.init
    /\ get_current_version(pyproject) = StartVersion
    /\ git.commits = start.git.commits
    /\ git.index = start.git.index
    /\ ~git.uncommitted
    /\ version \notin git.tags

C21_RolledBackRunRestores ==
    \E fe \in {FirstEnd} :
        FirstRunRolledBack(fe) =>
            \E version \in {log[fe - 1].arg} :
                /\ version # None
                /\ fe = Len(log) =>
                      /\ error.kind = "PushFailedRolledBack"
                      /\ LocalStateRestored(version)
                /\ fe + 1 = Len(log) =>
                      /\ pc = "check_git_clean"
                      /\ LocalStateRestored(version)
                /\ \A i \in SecondRun(fe) :
                      /\ (log[i].op = StatusOp /\ log[i].res = "ok") =>
                            /\ i = fe + 2
                            /\ i = Len(log) => pc = "check_git_remote" /\ error = NoError
                      /\ (log[i].op = RemoteOp /\ i = fe + 3 /\ log[i].res = "ok") =>
                            (i = Len(log) => pc = "bump_version" /\ error = NoError)
                      /\ log[i].op = "bump_version" =>
                            /\ i = fe + 4
                            /\ log[i].res = "ok"
                            /\ log[i].arg = version
                            /\ \A j \in 1..fe :
                                  log[j].op = "bump_version" => log[i].arg = log[j].arg
                      /\ log[i].op \in WriteOps \cup {"git tag"} => log[i].arg = version

C21_Witness ==
    \E fe \in {FirstEnd} :
        /\ FirstRunRolledBack(fe)
        /\ Len(log) = fe + 4
        /\ log[fe + 1].op = "publish"
        /\ log[Len(log)].op = "bump_version" /\ log[Len(log)].res = "ok"
        /\ pc = "update_version_files"
        /\ new_version = log[fe - 1].arg /\ new_version # None
        /\ pyproject = start.pyproject
====
